---- MODULE Spec2Model ----
(***************************************************************************)
(* The signup/login wizard of components/SignupFlow.tsx and the data       *)
(* access layer of lib/database.ts, with the tables, row-level-security    *)
(* policies and triggers of the SQL migrations they talk to.               *)
(*                                                                         *)
(* A JavaScript string is a sequence of one-character strings, so that     *)
(* length, includes, toLowerCase and parseInt are computed as the          *)
(* runtime computes them.  null is the string "null"; usernameAvailable    *)
(* (boolean | null) takes the values "true", "false" and "null".           *)
(***************************************************************************)
EXTENDS Integers, Sequences, FiniteSets, Bags, TLC

VARIABLES
    authMode,           \* useState<AuthMode>
    signupStep,         \* useState<SignupStep>
    authData,           \* useState<AuthData>
    usernameAvailable,  \* useState<boolean | null>
    checkingUsername,   \* useState(false)
    isLoading,          \* useState(false)
    debounceTimeout,    \* the pending setTimeout of the username effect
    pendingChecks,      \* availability queries awaiting the database
    signUpCalls,        \* signUp calls awaiting the auth service
    signInCalls,        \* signIn calls awaiting the auth service
    authUsers,          \* rows of auth.users
    profiles,           \* rows of public.profiles
    follows,            \* rows of public.follows, a bag of (follower_id, following_id)
    returned,           \* what the last call of followOperations returned
    failedCalls,        \* history: the kinds of call that failed since the
                        \* user's last action
    resolvedAvailable,  \* history: the usernames for which an availability
                        \* query has answered that the name is available
    user                \* the auth context's current user

vars == << authMode, signupStep, authData, usernameAvailable, checkingUsername,
           isLoading, debounceTimeout, pendingChecks, signUpCalls, signInCalls,
           authUsers, profiles, follows, returned, failedCalls,
           resolvedAvailable, user >>

wizardVars == << authMode, signupStep, authData, usernameAvailable,
                 checkingUsername, isLoading >>

dbVars == << authUsers, profiles, follows, returned >>

-----------------------------------------------------------------------------
(* Bounds of the model *)

\* availability queries that may be awaiting the database at once
MaxPendingChecks == 2

\* steps of the clock that make up one settling delay
TicksPerDelay == 2

-----------------------------------------------------------------------------
(* Strings *)

UpperChars == << "A", "B", "C", "D", "E", "F", "G", "H", "I", "J", "K", "L", "M",
                 "N", "O", "P", "Q", "R", "S", "T", "U", "V", "W", "X", "Y", "Z" >>

LowerChars == << "a", "b", "c", "d", "e", "f", "g", "h", "i", "j", "k", "l", "m",
                 "n", "o", "p", "q", "r", "s", "t", "u", "v", "w", "x", "y", "z" >>

DigitChars == << "0", "1", "2", "3", "4", "5", "6", "7", "8", "9" >>

IndexIn(c, chars) ==
    IF \E i \in DOMAIN chars : chars[i] = c
    THEN CHOOSE i \in DOMAIN chars : chars[i] = c
    ELSE 0

\* String.prototype.toLowerCase, one character
LowerChar(c) ==
    IF IndexIn(c, UpperChars) > 0 THEN LowerChars[IndexIn(c, UpperChars)] ELSE c

\* String.prototype.toLowerCase
ToLowerCase(s) == [i \in DOMAIN s |-> LowerChar(s[i])]

\* String.prototype.includes, for a one-character needle
Includes(s, c) == \E i \in DOMAIN s : s[i] = c

IsDigit(c) == IndexIn(c, DigitChars) > 0

DigitValue(c) == IndexIn(c, DigitChars) - 1

\* the length of the longest prefix of s made of decimal digits
RECURSIVE DigitPrefixLen(_)
DigitPrefixLen(s) ==
    IF s = << >> \/ ~IsDigit(Head(s)) THEN 0 ELSE 1 + DigitPrefixLen(Tail(s))

\* the value of a sequence of decimal digits
RECURSIVE DigitsValue(_)
DigitsValue(s) ==
    IF s = << >> THEN 0
    ELSE 10 * DigitsValue(SubSeq(s, 1, Len(s) - 1)) + DigitValue(s[Len(s)])

RECURSIVE TrimStart(_)
TrimStart(s) ==
    IF s # << >> /\ Head(s) = " " THEN TrimStart(Tail(s)) ELSE s

\* parseInt(s) in radix 10: leading white space is skipped, a sign is read,
\* then the longest run of digits; << >> is NaN, << n >> the number n.
\* (No input of the model starts with "0x", the one case parseInt reads in
\* radix 16.)
ParseInt(s) ==
    LET t    == TrimStart(s)
        neg  == t # << >> /\ Head(t) = "-"
        body == IF t # << >> /\ Head(t) \in {"-", "+"} THEN Tail(t) ELSE t
        n    == DigitPrefixLen(body)
    IN  IF n = 0 THEN << >>
        ELSE IF neg THEN << 0 - DigitsValue(SubSeq(body, 1, n)) >>
        ELSE << DigitsValue(SubSeq(body, 1, n)) >>

\* a >= k and a <= k of JavaScript, false when a is NaN
NumGeq(a, k) == a # << >> /\ a[1] >= k

NumLeq(a, k) == a # << >> /\ a[1] <= k

-----------------------------------------------------------------------------
(* The wizard's types and pure functions *)

AuthModes == {"welcome", "login", "signup"}

\* the steps array of goToNextStep, goToPreviousStep and getStepProgress
steps == << "email", "password", "confirm-password", "name", "gender", "age",
            "country", "username", "interests" >>

\* steps.indexOf(step), counted from 0; -1 when absent
IndexOf(step) == IndexIn(step, steps) - 1

\* goToNextStep written with currentIndex + 2: it skips a step
NextStepOf_Skips(step) ==
    IF IndexOf(step) + 2 <= Len(steps) - 1
    THEN steps[(IndexOf(step) + 2) + 1]
    ELSE steps[Len(steps)]

\* steps[currentIndex + 1] of goToNextStep
NextStepOf(step) == steps[(IndexOf(step) + 1) + 1]

\* goToPreviousStep going back to the first step
PreviousStepOf_First(step) == steps[1]

\* steps[currentIndex - 1] of goToPreviousStep
PreviousStepOf(step) == steps[(IndexOf(step) - 1) + 1]

\* the initial value of authData, which resetSignup restores
EmptyAuthData ==
    [ email |-> << >>, password |-> << >>, confirmPassword |-> << >>,
      firstName |-> << >>, lastName |-> << >>, gender |-> << >>, age |-> << >>,
      country |-> << >>, username |-> << >>, interests |-> << >> ]

FieldNames == DOMAIN EmptyAuthData

\* canProceedToNext not comparing the confirmation with the password
CanProceedToNext_NoConfirm(step, data, available) ==
    CASE step = "email" ->
            Includes(data.email, "@") /\ Len(data.email) > 0
      [] step = "password" ->
            Len(data.password) >= 8
      [] step = "confirm-password" ->
            Len(data.confirmPassword) > 0
      [] step = "name" ->
            Len(data.firstName) > 0 /\ Len(data.lastName) > 0
      [] step = "gender" ->
            Len(data.gender) > 0
      [] step = "age" ->
            /\ Len(data.age) > 0
            /\ NumGeq(ParseInt(data.age), 13)
            /\ NumLeq(ParseInt(data.age), 120)
      [] step = "country" ->
            Len(data.country) > 0
      [] step = "username" ->
            Len(data.username) >= 3 /\ available = "true"
      [] step = "interests" ->
            Len(data.interests) > 0
      [] OTHER -> FALSE

\* canProceedToNext letting a username pass whose availability is unknown
CanProceedToNext_UnknownPasses(step, data, available) ==
    CASE step = "email" ->
            Includes(data.email, "@") /\ Len(data.email) > 0
      [] step = "password" ->
            Len(data.password) >= 8
      [] step = "confirm-password" ->
            data.confirmPassword = data.password /\ Len(data.confirmPassword) > 0
      [] step = "name" ->
            Len(data.firstName) > 0 /\ Len(data.lastName) > 0
      [] step = "gender" ->
            Len(data.gender) > 0
      [] step = "age" ->
            /\ Len(data.age) > 0
            /\ NumGeq(ParseInt(data.age), 13)
            /\ NumLeq(ParseInt(data.age), 120)
      [] step = "country" ->
            Len(data.country) > 0
      [] step = "username" ->
            Len(data.username) >= 3 /\ available # "false"
      [] step = "interests" ->
            Len(data.interests) > 0
      [] OTHER -> FALSE

\* canProceedToNext with the age compared by > and <
CanProceedToNext_AgeStrict(step, data, available) ==
    CASE step = "email" ->
            Includes(data.email, "@") /\ Len(data.email) > 0
      [] step = "password" ->
            Len(data.password) >= 8
      [] step = "confirm-password" ->
            data.confirmPassword = data.password /\ Len(data.confirmPassword) > 0
      [] step = "name" ->
            Len(data.firstName) > 0 /\ Len(data.lastName) > 0
      [] step = "gender" ->
            Len(data.gender) > 0
      [] step = "age" ->
            /\ Len(data.age) > 0
            /\ NumGeq(ParseInt(data.age), 14)
            /\ NumLeq(ParseInt(data.age), 119)
      [] step = "country" ->
            Len(data.country) > 0
      [] step = "username" ->
            Len(data.username) >= 3 /\ available = "true"
      [] step = "interests" ->
            Len(data.interests) > 0
      [] OTHER -> FALSE

\* canProceedToNext, as a function of the state it reads
CanProceedToNext(step, data, available) ==
    CASE step = "email" ->
            Includes(data.email, "@") /\ Len(data.email) > 0
      [] step = "password" ->
            Len(data.password) >= 8
      [] step = "confirm-password" ->
            data.confirmPassword = data.password /\ Len(data.confirmPassword) > 0
      [] step = "name" ->
            Len(data.firstName) > 0 /\ Len(data.lastName) > 0
      [] step = "gender" ->
            Len(data.gender) > 0
      [] step = "age" ->
            /\ Len(data.age) > 0
            /\ NumGeq(ParseInt(data.age), 13)
            /\ NumLeq(ParseInt(data.age), 120)
      [] step = "country" ->
            Len(data.country) > 0
      [] step = "username" ->
            Len(data.username) >= 3 /\ available = "true"
      [] step = "interests" ->
            Len(data.interests) > 0
      [] OTHER -> FALSE

\* the bottom button left enabled while an auth call is in flight
BottomButtonDisabled_IgnoresLoading(mode, step, data, available, loading) ==
    mode = "signup" /\ ~CanProceedToNext(step, data, available)

\* the disabled attribute of the bottom button
BottomButtonDisabled(mode, step, data, available, loading) ==
    (mode = "signup" /\ ~CanProceedToNext(step, data, available)) \/ loading

\* the login form's submit button left enabled while a call is in flight
LoginSubmitDisabled_IgnoresLoading(data, loading) ==
    data.email = << >> \/ data.password = << >>

\* the disabled attribute of the login form's submit button
LoginSubmitDisabled(data, loading) ==
    loading \/ data.email = << >> \/ data.password = << >>

\* the input fields the screen shows, which are the ones the user can edit
ShownFields(mode, step) ==
    IF mode = "login" THEN {"email", "password"}
    ELSE IF mode = "signup" THEN
        CASE step = "email" -> {"email"}
          [] step = "password" -> {"password"}
          [] step = "confirm-password" -> {"confirmPassword"}
          [] step = "name" -> {"firstName", "lastName"}
          [] step = "gender" -> {"gender"}
          [] step = "age" -> {"age"}
          [] step = "country" -> {"country"}
          [] step = "username" -> {"username"}
          [] OTHER -> {}
    ELSE {}

\* handleInterestToggle adding the interest whether it is there or not
ToggledInterests_AlwaysAdds(currentInterests, interestId) ==
    Append(currentInterests, interestId)

\* handleInterestToggle's new list
ToggledInterests(currentInterests, interestId) ==
    IF \E i \in DOMAIN currentInterests : currentInterests[i] = interestId
    THEN SelectSeq(currentInterests, LAMBDA id : id # interestId)
    ELSE Append(currentInterests, interestId)

-----------------------------------------------------------------------------
(* The username effect *)

NoTimeout == << >>

\* the delay of the effect's setTimeout
DebounceDelay == 500

\* what one step of the clock adds to a pending timer
TickLength == DebounceDelay \div TicksPerDelay

\* the effect without its cleanup: a pending timer is left to run
UsernameEffect_NoCleanup(timeout, oldName, oldStep, newName, newStep) ==
    IF oldName = newName /\ oldStep = newStep THEN timeout
    ELSE IF timeout # NoTimeout THEN timeout
    ELSE IF newStep = "username" /\ newName # << >>
         THEN << [username |-> newName, elapsed |-> 0] >>
         ELSE NoTimeout

\* The effect with dependencies [authData.username, signupStep]: when one of
\* them changed in the render, the cleanup of the last run clears its timer
\* and the effect runs again, setting a timer when the step is username and
\* the username is not empty.  The timer is << [username, elapsed] >>.
UsernameEffect(timeout, oldName, oldStep, newName, newStep) ==
    IF oldName = newName /\ oldStep = newStep THEN timeout
    ELSE IF newStep = "username" /\ newName # << >>
         THEN << [username |-> newName, elapsed |-> 0] >>
         ELSE NoTimeout

-----------------------------------------------------------------------------
(* The database and the auth service *)

NoUser == "null"

\* ids the auth service can give to new users
UserIds == {"u1", "u2"}

\* RLS of profiles: both SELECT policies are granted TO authenticated, so a
\* request without a session reads no row; a signed-in user reads its own
\* row and every row that is not private.
VisibleProfiles(rows, uid) ==
    IF uid = NoUser THEN {}
    ELSE {p \in rows : p.id = uid \/ ~p.is_private}

\* supabase .single(): the row when exactly one matches, else the error
\* PGRST116; data is the set holding the row, {} for null.
Single(rows) ==
    IF Cardinality(rows) = 1
    THEN [data |-> rows, error |-> "null"]
    ELSE [data |-> {}, error |-> "PGRST116"]

\* from('profiles').select('username').eq('username', name).single() sent by
\* the session uid; transport is "response", or "error" when the request
\* fails for another reason
SelectUsername(rows, uid, name, transport) ==
    IF transport = "response"
    THEN Single({p \in VisibleProfiles(rows, uid) : p.username = name})
    ELSE [data |-> {}, error |-> "other"]

\* profileOperations.checkUsernameAvailability
CheckUsernameAvailability(rows, uid, username, transport) ==
    LET r == SelectUsername(rows, uid, ToLowerCase(username), transport)
    IN  IF r.error # "null" /\ r.error = "PGRST116"
        THEN [available |-> "true", error |-> "null"]
        ELSE IF r.data # {}
        THEN [available |-> "false", error |-> "null"]
        ELSE [available |-> "null", error |-> r.error]

\* the wizard's check taking every answer without data for a taken name
WizardAvailability_ErrorTaken(rows, uid, username, transport) ==
    IF transport = "throw" THEN "false"
    ELSE LET r == SelectUsername(rows, uid, ToLowerCase(username), transport)
         IN  IF r.error # "null" /\ r.error = "PGRST116" THEN "true"
             ELSE "false"

\* the value the wizard's own checkUsernameAvailability gives to
\* setUsernameAvailable once its query has answered; "throw" is the catch
WizardAvailability(rows, uid, username, transport) ==
    IF transport = "throw" THEN "null"
    ELSE LET r == SelectUsername(rows, uid, ToLowerCase(username), transport)
         IN  IF r.error # "null" /\ r.error = "PGRST116" THEN "true"
             ELSE IF r.data # {} THEN "false"
             ELSE "null"

\* the user metadata the auth context's signUp stores with the new user
SignUpMetadata(call) ==
    [ username |-> call.username, first_name |-> call.firstName,
      last_name |-> call.lastName, gender |-> call.gender, age |-> call.age,
      country |-> call.country, interests |-> call.interests ]

\* handle_new_user: the profiles row of a new auth.users row
HandleNewUser(id, meta) ==
    [ id |-> id,
      username |-> IF "username" \in DOMAIN meta THEN meta.username
                   ELSE << "user_", id >>,
      followers_count |-> 0,
      following_count |-> 0,
      is_private |-> FALSE ]

\* the id of the next auth.users row
NewUserId == CHOOSE id \in UserIds : \A u \in authUsers : u.id # id

\* whether the auth service can create the user: the email is new, an id is
\* left, and the trigger's insert keeps profiles.username UNIQUE
CanCreateUser(call) ==
    /\ \A u \in authUsers : u.email # call.email
    /\ \E id \in UserIds : \A u \in authUsers : u.id # id
    /\ \A p \in profiles :
          p.username # HandleNewUser(NewUserId, SignUpMetadata(call)).username

\* the follows table without its UNIQUE(follower_id, following_id)
FollowsInsertError_NoUnique(rows, profs, uid, row) ==
    IF uid = NoUser \/ uid # row.follower_id THEN "42501"
    ELSE IF row.follower_id = row.following_id THEN "23514"
    ELSE IF \/ \A p \in profs : p.id # row.follower_id
            \/ \A p \in profs : p.id # row.following_id THEN "23503"
    ELSE "null"

\* CREATE TABLE follows: the error of inserting row, "null" when none.
\* CHECK (follower_id != following_id), UNIQUE(follower_id, following_id)
\* and the two REFERENCES profiles(id); the INSERT policy is WITH CHECK
\* (auth.uid() = follower_id).
FollowsInsertError(rows, profs, uid, row) ==
    IF uid = NoUser \/ uid # row.follower_id THEN "42501"
    ELSE IF row.follower_id = row.following_id THEN "23514"
    ELSE IF BagIn(row, rows) THEN "23505"
    ELSE IF \/ \A p \in profs : p.id # row.follower_id
            \/ \A p \in profs : p.id # row.following_id THEN "23503"
    ELSE "null"

\* update_follow_counts run once whether a row was deleted or not
UpdateFollowCounts_IgnoresN(profs, row, delta, n) ==
    { [p EXCEPT
          !.following_count = IF p.id = row.follower_id THEN @ + delta ELSE @,
          !.followers_count = IF p.id = row.following_id THEN @ + delta ELSE @]
      : p \in profs }

\* update_follow_counts, run for each of the n rows inserted (delta 1) or
\* deleted (delta -1) that are equal to row
UpdateFollowCounts(profs, row, delta, n) ==
    { [p EXCEPT
          !.following_count = IF p.id = row.follower_id THEN @ + delta * n ELSE @,
          !.followers_count = IF p.id = row.following_id THEN @ + delta * n ELSE @]
      : p \in profs }

\* the rows of the bag that are equal to a row of kept
SelectRows(rows, kept) == [ f \in kept \cap DOMAIN rows |-> rows[f] ]

\* the SELECT policy without its auth.uid() = follower_id
VisibleFollows_NotOwn(rows, profs, uid) ==
    SelectRows(rows,
        { f \in DOMAIN rows :
            /\ uid # NoUser
            /\ \/ uid = f.following_id
               \/ \E p \in profs : p.id = f.following_id /\ ~p.is_private })

\* the rows of follows a session reads: the SELECT policy
VisibleFollows(rows, profs, uid) ==
    SelectRows(rows,
        { f \in DOMAIN rows :
            /\ uid # NoUser
            /\ \/ uid = f.follower_id
               \/ uid = f.following_id
               \/ \E p \in profs : p.id = f.following_id /\ ~p.is_private })

\* the rows of follows a session may delete: the DELETE policy
DeletableFollows(rows, uid) ==
    SelectRows(rows, { f \in DOMAIN rows : uid # NoUser /\ uid = f.follower_id })

NoReturn ==
    [ op |-> "none", followingId |-> "null", data |-> {}, isFollowing |-> FALSE,
      error |-> "null", thrown |-> "null" ]

-----------------------------------------------------------------------------
(* What the user types.  A text input starts empty; the values below are   *)
(* the ones the user then gives it.                                        *)

EmailInputs == { << "a", "@", "b" >> }

\* two passwords of eight characters; the empty password the field starts
\* with is the one that is too short
PasswordInputs ==
    { << "p", "a", "s", "s", "w", "o", "r", "d" >>,
      << "p", "a", "s", "s", "w", "o", "r", "t" >> }

ConfirmInputs == { << "p", "a", "s", "s", "w", "o", "r", "d" >> }

NameInputs == { << "J", "o" >> }

\* the SelectItems of the gender step (one of them)
GenderInputs == { << "f", "e", "m", "a", "l", "e" >> }

AgeInputs == { << "1", "2" >>, << "1", "3" >> }

\* the countries array (one of them)
CountryInputs == { << "C", "a", "n", "a", "d", "a" >> }

UsernameInputs == { << >>, << "a", "b" >>, << "b", "o", "b" >>, << "B", "o", "b" >> }

\* the ids of the interests array (one of them)
InterestIds == { "music" }

InputsOf(field) ==
    CASE field = "email" -> EmailInputs
      [] field = "password" -> PasswordInputs
      [] field = "confirmPassword" -> ConfirmInputs
      [] field = "firstName" -> NameInputs
      [] field = "lastName" -> NameInputs
      [] field = "gender" -> GenderInputs
      [] field = "age" -> AgeInputs
      [] field = "country" -> CountryInputs
      [] field = "username" -> UsernameInputs
      [] OTHER -> {}

-----------------------------------------------------------------------------
(* The state after the first render, the auth context loaded, nobody        *)
(* signed in, the tables empty                                              *)

Init ==
    /\ authMode = "welcome"
    /\ signupStep = "email"
    /\ authData = EmptyAuthData
    /\ usernameAvailable = "null"
    /\ checkingUsername = FALSE
    /\ isLoading = FALSE
    /\ debounceTimeout = NoTimeout
    /\ pendingChecks = << >>
    /\ signUpCalls = << >>
    /\ signInCalls = << >>
    /\ authUsers = {}
    /\ profiles = {}
    /\ follows = EmptyBag
    /\ returned = NoReturn
    /\ failedCalls = {}
    /\ resolvedAvailable = {}
    /\ user = NoUser

\* AuthGuard shows the wizard while nobody is signed in
WizardShown == user = NoUser

\* the render after a state change runs the username effect
RunEffect ==
    debounceTimeout' = UsernameEffect(debounceTimeout, authData.username, signupStep,
                                      authData'.username, signupStep')

\* the sequence s without its i-th element
RemoveAt(s, i) == SubSeq(s, 1, i - 1) \o SubSeq(s, i + 1, Len(s))

-----------------------------------------------------------------------------
(* The wizard's handlers *)

\* resetSignup without its setSignupStep('email')
resetSignup_KeepsStep ==
    /\ UNCHANGED signupStep
    /\ usernameAvailable' = "null"
    /\ checkingUsername' = FALSE
    /\ authData' = EmptyAuthData

\* resetSignup without its setAuthData
resetSignup_KeepsData ==
    /\ signupStep' = "email"
    /\ usernameAvailable' = "null"
    /\ checkingUsername' = FALSE
    /\ UNCHANGED authData

\* resetSignup without its setUsernameAvailable(null)
resetSignup_KeepsAvailability ==
    /\ signupStep' = "email"
    /\ UNCHANGED usernameAvailable
    /\ checkingUsername' = FALSE
    /\ authData' = EmptyAuthData

resetSignup ==
    /\ signupStep' = "email"
    /\ usernameAvailable' = "null"
    /\ checkingUsername' = FALSE
    /\ authData' = EmptyAuthData

\* the Create Account button of the welcome screen
ClickCreateAccount ==
    /\ WizardShown
    /\ authMode = "welcome"
    /\ authMode' = "signup"
    /\ resetSignup
    /\ UNCHANGED << isLoading, pendingChecks, signUpCalls, signInCalls, dbVars, user >>
    /\ RunEffect
    /\ failedCalls' = {}
    /\ UNCHANGED resolvedAvailable

\* the Sign In button of the welcome screen
ClickSignIn ==
    /\ WizardShown
    /\ authMode = "welcome"
    /\ authMode' = "login"
    /\ UNCHANGED << signupStep, authData, usernameAvailable, checkingUsername,
                    isLoading, debounceTimeout, pendingChecks, signUpCalls,
                    signInCalls, dbVars, user >>
    /\ failedCalls' = {}
    /\ UNCHANGED resolvedAvailable

goToPreviousStep ==
    LET currentIndex == IndexOf(signupStep)
    IN  IF currentIndex > 0
        THEN /\ signupStep' = PreviousStepOf(signupStep)
             /\ UNCHANGED authMode
        ELSE /\ authMode' = "welcome"
             /\ UNCHANGED signupStep

\* the back button taking the login form to the signup wizard
ClickBack_LoginToSignup ==
    /\ WizardShown
    /\ authMode # "welcome"
    /\ IF authMode = "login"
       THEN authMode' = "signup" /\ UNCHANGED signupStep
       ELSE goToPreviousStep
    /\ UNCHANGED << authData, usernameAvailable, checkingUsername, isLoading,
                    pendingChecks, signUpCalls, signInCalls, dbVars, user >>
    /\ RunEffect
    /\ failedCalls' = {}
    /\ UNCHANGED resolvedAvailable

\* the back button of the header
ClickBack ==
    /\ WizardShown
    /\ authMode # "welcome"
    /\ IF authMode = "login"
       THEN authMode' = "welcome" /\ UNCHANGED signupStep
       ELSE goToPreviousStep
    /\ UNCHANGED << authData, usernameAvailable, checkingUsername, isLoading,
                    pendingChecks, signUpCalls, signInCalls, dbVars, user >>
    /\ RunEffect
    /\ failedCalls' = {}
    /\ UNCHANGED resolvedAvailable

\* updateAuthData emptying the confirmation when the password changes
updateAuthData_ClearsConfirm(field, value) ==
    /\ WizardShown
    /\ field \in ShownFields(authMode, signupStep)
    /\ value \in InputsOf(field)
    /\ value # authData[field]
    /\ authData' = [authData EXCEPT
                       ![field] = value,
                       !.confirmPassword = IF field = "password" THEN << >> ELSE @]
    /\ UNCHANGED << authMode, signupStep, usernameAvailable, checkingUsername,
                    isLoading, pendingChecks, signUpCalls, signInCalls, dbVars, user >>
    /\ RunEffect
    /\ failedCalls' = {}
    /\ UNCHANGED resolvedAvailable

\* the onChange of a shown input
updateAuthData(field, value) ==
    /\ WizardShown
    /\ field \in ShownFields(authMode, signupStep)
    /\ value \in InputsOf(field)
    /\ value # authData[field]
    /\ authData' = [authData EXCEPT ![field] = value]
    /\ UNCHANGED << authMode, signupStep, usernameAvailable, checkingUsername,
                    isLoading, pendingChecks, signUpCalls, signInCalls, dbVars, user >>
    /\ RunEffect
    /\ failedCalls' = {}
    /\ UNCHANGED resolvedAvailable

\* the onClick of an interest of the interests step
handleInterestToggle(interestId) ==
    /\ WizardShown
    /\ authMode = "signup"
    /\ signupStep = "interests"
    /\ authData' = [authData EXCEPT
                       !.interests = ToggledInterests(authData.interests, interestId)]
    /\ UNCHANGED << authMode, signupStep, usernameAvailable, checkingUsername,
                    isLoading, pendingChecks, signUpCalls, signInCalls, dbVars, user >>
    /\ RunEffect
    /\ failedCalls' = {}
    /\ UNCHANGED resolvedAvailable

\* handleLogin without its check of the two fields
handleLogin_NoGuard ==
    IF FALSE
    THEN UNCHANGED << wizardVars, debounceTimeout, pendingChecks, signUpCalls,
                      signInCalls, dbVars, user >>
    ELSE /\ isLoading' = TRUE
         /\ signInCalls' = Append(signInCalls,
                [email |-> authData.email, password |-> authData.password])
         /\ UNCHANGED << authMode, signupStep, authData, usernameAvailable,
                         checkingUsername, debounceTimeout, pendingChecks,
                         signUpCalls, dbVars, user >>

\* handleLogin up to its await
handleLogin ==
    IF authData.email = << >> \/ authData.password = << >>
    THEN UNCHANGED << wizardVars, debounceTimeout, pendingChecks, signUpCalls,
                      signInCalls, dbVars, user >>
    ELSE /\ isLoading' = TRUE
         /\ signInCalls' = Append(signInCalls,
                [email |-> authData.email, password |-> authData.password])
         /\ UNCHANGED << authMode, signupStep, authData, usernameAvailable,
                         checkingUsername, debounceTimeout, pendingChecks,
                         signUpCalls, dbVars, user >>

\* signUp given the confirmation in place of the password
SignUpCall_Confirm(data) ==
    [ email |-> data.email, password |-> data.confirmPassword,
      firstName |-> data.firstName, lastName |-> data.lastName,
      username |-> data.username, gender |-> data.gender, age |-> data.age,
      country |-> data.country, interests |-> << >> ]

\* the arguments goToNextStep gives to signUp
SignUpCall(data) ==
    [ email |-> data.email, password |-> data.password,
      firstName |-> data.firstName, lastName |-> data.lastName,
      username |-> data.username, gender |-> data.gender, age |-> data.age,
      country |-> data.country, interests |-> data.interests ]

\* goToNextStep up to its await
goToNextStep ==
    LET currentIndex == IndexOf(signupStep)
    IN  IF currentIndex < Len(steps) - 1
        THEN /\ signupStep' = NextStepOf(signupStep)
             /\ UNCHANGED << authMode, authData, usernameAvailable, checkingUsername,
                             isLoading, pendingChecks, signUpCalls, signInCalls,
                             dbVars, user >>
             /\ RunEffect
        ELSE /\ isLoading' = TRUE
             /\ signUpCalls' = Append(signUpCalls, SignUpCall(authData))
             /\ UNCHANGED << authMode, signupStep, authData, usernameAvailable,
                             checkingUsername, debounceTimeout, pendingChecks,
                             signInCalls, dbVars, user >>

\* the bottom button
ClickBottomButton ==
    /\ WizardShown
    /\ authMode # "welcome"
    /\ ~BottomButtonDisabled(authMode, signupStep, authData, usernameAvailable,
                             isLoading)
    /\ IF authMode = "login" THEN handleLogin ELSE goToNextStep
    /\ failedCalls' = {}
    /\ UNCHANGED resolvedAvailable

\* the submit button of the login form
SubmitLoginForm ==
    /\ WizardShown
    /\ authMode = "login"
    /\ ~LoginSubmitDisabled(authData, isLoading)
    /\ handleLogin
    /\ failedCalls' = {}
    /\ UNCHANGED resolvedAvailable

-----------------------------------------------------------------------------
(* Time, and the completions of the asynchronous calls *)

Min(a, b) == IF a < b THEN a ELSE b

\* time passes while the effect's timer is pending
Tick ==
    /\ WizardShown
    /\ debounceTimeout # NoTimeout
    /\ debounceTimeout[1].elapsed < DebounceDelay
    /\ debounceTimeout' =
          << [debounceTimeout[1] EXCEPT
                 !.elapsed = Min(@ + TickLength, DebounceDelay)] >>
    /\ UNCHANGED << wizardVars, pendingChecks, signUpCalls, signInCalls, dbVars, user >>
    /\ UNCHANGED failedCalls
    /\ UNCHANGED resolvedAvailable

\* checkUsernameAvailability up to its await
checkUsernameAvailability(username) ==
    IF Len(username) < 3
    THEN /\ usernameAvailable' = "null"
         /\ UNCHANGED << checkingUsername, pendingChecks >>
    ELSE /\ Len(pendingChecks) < MaxPendingChecks
         /\ checkingUsername' = TRUE
         /\ pendingChecks' = Append(pendingChecks, [username |-> username])
         /\ UNCHANGED usernameAvailable

\* the effect's timer fires, the delay over
TimeoutFires ==
    /\ WizardShown
    /\ debounceTimeout # NoTimeout
    /\ debounceTimeout[1].elapsed >= DebounceDelay
    /\ debounceTimeout' = NoTimeout
    /\ checkUsernameAvailability(debounceTimeout[1].username)
    /\ UNCHANGED << authMode, signupStep, authData, isLoading, signUpCalls,
                    signInCalls, dbVars, user >>
    /\ UNCHANGED failedCalls
    /\ UNCHANGED resolvedAvailable

Transports == {"response", "error", "throw"}

\* checkUsernameAvailability setting a timer to ask again when its query fails
CheckAnswers_RetriesLater(i, transport) ==
    /\ WizardShown
    /\ i \in DOMAIN pendingChecks
    /\ usernameAvailable' =
          WizardAvailability(profiles, user, pendingChecks[i].username, transport)
    /\ checkingUsername' = FALSE
    /\ pendingChecks' = RemoveAt(pendingChecks, i)
    /\ debounceTimeout' =
          IF transport = "response" THEN debounceTimeout
          ELSE << [username |-> pendingChecks[i].username, elapsed |-> 0] >>
    /\ UNCHANGED << authMode, signupStep, authData, isLoading,
                    signUpCalls, signInCalls, dbVars, user >>
    /\ failedCalls' = IF transport = "response" THEN failedCalls
                      ELSE failedCalls \cup {"check"}
    /\ resolvedAvailable' =
          IF WizardAvailability(profiles, user, pendingChecks[i].username,
                                transport) = "true"
          THEN resolvedAvailable \cup {pendingChecks[i].username}
          ELSE resolvedAvailable

\* checkUsernameAvailability from its await on: the i-th pending query answers
CheckAnswers(i, transport) ==
    /\ WizardShown
    /\ i \in DOMAIN pendingChecks
    /\ usernameAvailable' =
          WizardAvailability(profiles, user, pendingChecks[i].username, transport)
    /\ checkingUsername' = FALSE
    /\ pendingChecks' = RemoveAt(pendingChecks, i)
    /\ UNCHANGED << authMode, signupStep, authData, isLoading, debounceTimeout,
                    signUpCalls, signInCalls, dbVars, user >>
    /\ failedCalls' = IF transport = "response" THEN failedCalls
                      ELSE failedCalls \cup {"check"}
    /\ resolvedAvailable' =
          IF WizardAvailability(profiles, user, pendingChecks[i].username,
                                transport) = "true"
          THEN resolvedAvailable \cup {pendingChecks[i].username}
          ELSE resolvedAvailable

\* goToNextStep without its finally: a throw leaves the loading flag set
SignUpAnswers_NoFinally(i, outcome) ==
    /\ WizardShown
    /\ i \in DOMAIN signUpCalls
    /\ signUpCalls' = RemoveAt(signUpCalls, i)
    /\ IF outcome = "ok"
       THEN /\ CanCreateUser(signUpCalls[i])
            /\ authUsers' = authUsers \cup
                  { [id |-> NewUserId, email |-> signUpCalls[i].email,
                     password |-> signUpCalls[i].password] }
            /\ profiles' = profiles \cup
                  { HandleNewUser(NewUserId, SignUpMetadata(signUpCalls[i])) }
            /\ UNCHANGED << follows, returned >>
            /\ authMode' = "welcome"
            /\ resetSignup
       ELSE UNCHANGED << authMode, signupStep, authData, usernameAvailable,
                         checkingUsername, dbVars >>
    /\ isLoading' = IF outcome = "throw" THEN isLoading ELSE FALSE
    /\ UNCHANGED << pendingChecks, signInCalls, user >>
    /\ RunEffect
    /\ failedCalls' = IF outcome = "ok" THEN failedCalls
                      ELSE failedCalls \cup {"signUp"}
    /\ UNCHANGED resolvedAvailable

\* goToNextStep from its await on: the i-th pending signUp answers; with
\* "ok" the auth service has inserted the user and the trigger its profile
SignUpAnswers(i, outcome) ==
    /\ WizardShown
    /\ i \in DOMAIN signUpCalls
    /\ signUpCalls' = RemoveAt(signUpCalls, i)
    /\ IF outcome = "ok"
       THEN /\ CanCreateUser(signUpCalls[i])
            /\ authUsers' = authUsers \cup
                  { [id |-> NewUserId, email |-> signUpCalls[i].email,
                     password |-> signUpCalls[i].password] }
            /\ profiles' = profiles \cup
                  { HandleNewUser(NewUserId, SignUpMetadata(signUpCalls[i])) }
            /\ UNCHANGED << follows, returned >>
            /\ authMode' = "welcome"
            /\ resetSignup
       ELSE UNCHANGED << authMode, signupStep, authData, usernameAvailable,
                         checkingUsername, dbVars >>
    /\ isLoading' = FALSE
    /\ UNCHANGED << pendingChecks, signInCalls, user >>
    /\ RunEffect
    /\ failedCalls' = IF outcome = "ok" THEN failedCalls
                      ELSE failedCalls \cup {"signUp"}
    /\ UNCHANGED resolvedAvailable

\* handleLogin clearing the password when signIn fails
SignInAnswers_ClearsPassword(i, outcome) ==
    /\ WizardShown
    /\ i \in DOMAIN signInCalls
    /\ signInCalls' = RemoveAt(signInCalls, i)
    /\ IF outcome = "ok"
       THEN /\ \E u \in authUsers :
                  /\ u.email = signInCalls[i].email
                  /\ u.password = signInCalls[i].password
                  /\ user' = u.id
       ELSE UNCHANGED user
    /\ isLoading' = FALSE
    /\ authData' = IF outcome = "ok" THEN authData
                   ELSE [authData EXCEPT !.password = << >>]
    /\ UNCHANGED << authMode, signupStep, usernameAvailable,
                    checkingUsername, debounceTimeout, pendingChecks, signUpCalls,
                    dbVars >>
    /\ failedCalls' = IF outcome = "ok" THEN failedCalls
                      ELSE failedCalls \cup {"signIn"}
    /\ UNCHANGED resolvedAvailable

\* handleLogin from its await on: the i-th pending signIn answers; with "ok"
\* the auth context's user becomes the signed-in user
SignInAnswers(i, outcome) ==
    /\ WizardShown
    /\ i \in DOMAIN signInCalls
    /\ signInCalls' = RemoveAt(signInCalls, i)
    /\ IF outcome = "ok"
       THEN /\ \E u \in authUsers :
                  /\ u.email = signInCalls[i].email
                  /\ u.password = signInCalls[i].password
                  /\ user' = u.id
       ELSE UNCHANGED user
    /\ isLoading' = FALSE
    /\ UNCHANGED << authMode, signupStep, authData, usernameAvailable,
                    checkingUsername, debounceTimeout, pendingChecks, signUpCalls,
                    dbVars >>
    /\ failedCalls' = IF outcome = "ok" THEN failedCalls
                      ELSE failedCalls \cup {"signIn"}
    /\ UNCHANGED resolvedAvailable

Outcomes == {"ok", "error", "throw"}

Next ==
    \/ ClickCreateAccount
    \/ ClickSignIn
    \/ ClickBack
    \/ \E field \in FieldNames : \E value \in InputsOf(field) :
          updateAuthData(field, value)
    \/ \E interestId \in InterestIds : handleInterestToggle(interestId)
    \/ ClickBottomButton
    \/ SubmitLoginForm
    \/ Tick
    \/ TimeoutFires
    \/ \E i \in DOMAIN pendingChecks : \E transport \in Transports :
          CheckAnswers(i, transport)
    \/ \E i \in DOMAIN signUpCalls : \E outcome \in Outcomes :
          SignUpAnswers(i, outcome)
    \/ \E i \in DOMAIN signInCalls : \E outcome \in Outcomes :
          SignInAnswers(i, outcome)

Spec == Init /\ [][Next]_vars

\* a pending signUp call answers
SignUpCompletes ==
    \E i \in DOMAIN signUpCalls : \E outcome \in Outcomes : SignUpAnswers(i, outcome)

\* a pending signIn call answers
SignInCompletes ==
    \E i \in DOMAIN signInCalls : \E outcome \in Outcomes : SignInAnswers(i, outcome)

\* the wizard with an auth service that answers every call in the end
SpecLive ==
    /\ Spec
    /\ WF_vars(SignUpCompletes)
    /\ WF_vars(SignInCompletes)

-----------------------------------------------------------------------------
(* followOperations of lib/database.ts, called by signed-up users whose    *)
(* sessions come and go                                                    *)

\* the users that have signed up
FollowerIds == UserIds \cup {"u3"}

\* the ids asked about: the users and an id no profile has
FollowingIds == FollowerIds \cup {"u9"}

FollowTransports == {"response", "error"}

\* the row followUser inserts and unfollowUser and isFollowing look for
FollowRow(uid, followingId) ==
    [follower_id |-> uid, following_id |-> followingId]

\* followOperations.followUser
followUser(followingId, transport) ==
    /\ IF user = NoUser
       THEN /\ returned' = [NoReturn EXCEPT !.op = "followUser",
                               !.followingId = followingId,
                               !.thrown = "Not authenticated"]
            /\ UNCHANGED << follows, profiles >>
       ELSE LET row == FollowRow(user, followingId)
                error == IF transport = "response"
                         THEN FollowsInsertError(follows, profiles, user, row)
                         ELSE "other"
            IN  IF error = "null"
                THEN /\ follows' = follows (+) SetToBag({row})
                     /\ profiles' = UpdateFollowCounts(profiles, row, 1, 1)
                     /\ returned' = [NoReturn EXCEPT !.op = "followUser",
                                        !.followingId = followingId,
                                        !.data = {row}]
                ELSE /\ returned' = [NoReturn EXCEPT !.op = "followUser",
                                        !.followingId = followingId,
                                        !.error = error]
                     /\ UNCHANGED << follows, profiles >>
    /\ UNCHANGED << wizardVars, debounceTimeout, pendingChecks, signUpCalls,
                    signInCalls, authUsers, user >>
    /\ UNCHANGED failedCalls
    /\ UNCHANGED resolvedAvailable

\* unfollowUser deleting every row of the caller
unfollowUser_AllOfCaller(followingId, transport) ==
    /\ IF user = NoUser
       THEN /\ returned' = [NoReturn EXCEPT !.op = "unfollowUser",
                               !.followingId = followingId,
                               !.thrown = "Not authenticated"]
            /\ UNCHANGED << follows, profiles >>
       ELSE LET row == FollowRow(user, followingId)
                deleted == CopiesIn(row, DeletableFollows(follows, user))
                kept == { f \in DOMAIN follows : f.follower_id # user }
            IN  IF transport = "response"
                THEN /\ follows' = SelectRows(follows, kept)
                     /\ profiles' = UpdateFollowCounts(profiles, row, -1, deleted)
                     /\ returned' = [NoReturn EXCEPT !.op = "unfollowUser",
                                        !.followingId = followingId]
                ELSE /\ returned' = [NoReturn EXCEPT !.op = "unfollowUser",
                                        !.followingId = followingId,
                                        !.error = "other"]
                     /\ UNCHANGED << follows, profiles >>
    /\ UNCHANGED << wizardVars, debounceTimeout, pendingChecks, signUpCalls,
                    signInCalls, authUsers, user >>
    /\ UNCHANGED failedCalls
    /\ UNCHANGED resolvedAvailable

\* followOperations.unfollowUser
unfollowUser(followingId, transport) ==
    /\ IF user = NoUser
       THEN /\ returned' = [NoReturn EXCEPT !.op = "unfollowUser",
                               !.followingId = followingId,
                               !.thrown = "Not authenticated"]
            /\ UNCHANGED << follows, profiles >>
       ELSE LET row == FollowRow(user, followingId)
                deleted == CopiesIn(row, DeletableFollows(follows, user))
                kept == { f \in DOMAIN follows : f # row \/ deleted = 0 }
            IN  IF transport = "response"
                THEN /\ follows' = SelectRows(follows, kept)
                     /\ profiles' = UpdateFollowCounts(profiles, row, -1, deleted)
                     /\ returned' = [NoReturn EXCEPT !.op = "unfollowUser",
                                        !.followingId = followingId]
                ELSE /\ returned' = [NoReturn EXCEPT !.op = "unfollowUser",
                                        !.followingId = followingId,
                                        !.error = "other"]
                     /\ UNCHANGED << follows, profiles >>
    /\ UNCHANGED << wizardVars, debounceTimeout, pendingChecks, signUpCalls,
                    signInCalls, authUsers, user >>
    /\ UNCHANGED failedCalls
    /\ UNCHANGED resolvedAvailable

\* from('follows').select('id').eq(...).eq(...).single() sent by uid
SelectFollow(rows, profs, uid, followingId, transport) ==
    LET row == FollowRow(uid, followingId)
    IN  IF transport # "response" THEN [data |-> {}, error |-> "other"]
        ELSE IF CopiesIn(row, VisibleFollows(rows, profs, uid)) = 1
        THEN [data |-> {row}, error |-> "null"]
        ELSE [data |-> {}, error |-> "PGRST116"]

\* isFollowing returning the error of .single() as it is
isFollowing_ReportsNoRows(followingId, transport) ==
    /\ IF user = NoUser
       THEN returned' = [NoReturn EXCEPT !.op = "isFollowing",
                            !.followingId = followingId]
       ELSE LET r == SelectFollow(follows, profiles, user, followingId, transport)
            IN  returned' = [NoReturn EXCEPT !.op = "isFollowing",
                                !.followingId = followingId,
                                !.isFollowing = (r.data # {}),
                                !.error = r.error]
    /\ UNCHANGED << follows, profiles >>
    /\ UNCHANGED << wizardVars, debounceTimeout, pendingChecks, signUpCalls,
                    signInCalls, authUsers, user >>
    /\ UNCHANGED failedCalls
    /\ UNCHANGED resolvedAvailable

\* followOperations.isFollowing
isFollowing(followingId, transport) ==
    /\ IF user = NoUser
       THEN returned' = [NoReturn EXCEPT !.op = "isFollowing",
                            !.followingId = followingId]
       ELSE LET r == SelectFollow(follows, profiles, user, followingId, transport)
            IN  returned' = [NoReturn EXCEPT !.op = "isFollowing",
                                !.followingId = followingId,
                                !.isFollowing = (r.data # {}),
                                !.error = IF r.error # "null" /\ r.error # "PGRST116"
                                          THEN r.error ELSE "null"]
    /\ UNCHANGED << follows, profiles >>
    /\ UNCHANGED << wizardVars, debounceTimeout, pendingChecks, signUpCalls,
                    signInCalls, authUsers, user >>
    /\ UNCHANGED failedCalls
    /\ UNCHANGED resolvedAvailable

\* supabase.auth: a user signs in or the current one signs out
AuthStateChange(uid) ==
    /\ uid # user
    /\ user' = uid
    /\ UNCHANGED << wizardVars, debounceTimeout, pendingChecks, signUpCalls,
                    signInCalls, dbVars >>
    /\ UNCHANGED failedCalls
    /\ UNCHANGED resolvedAvailable

\* the users have signed up, the third one with a private profile or not
InitFollow ==
    /\ authMode = "welcome"
    /\ signupStep = "email"
    /\ authData = EmptyAuthData
    /\ usernameAvailable = "null"
    /\ checkingUsername = FALSE
    /\ isLoading = FALSE
    /\ debounceTimeout = NoTimeout
    /\ pendingChecks = << >>
    /\ signUpCalls = << >>
    /\ signInCalls = << >>
    /\ authUsers = { [id |-> id, email |-> << id, "@", "b" >>,
                      password |-> << "p", "a", "s", "s", "w", "o", "r", "d" >>]
                     : id \in FollowerIds }
    /\ \E private \in BOOLEAN :
          profiles = { [HandleNewUser(id, [username |-> << id >>]) EXCEPT
                           !.is_private = (private /\ id = "u3")]
                       : id \in FollowerIds }
    /\ follows = EmptyBag
    /\ returned = NoReturn
    /\ failedCalls = {}
    /\ resolvedAvailable = {}
    /\ user \in {NoUser} \cup FollowerIds

NextFollow ==
    \/ \E followingId \in FollowingIds : \E transport \in FollowTransports :
          followUser(followingId, transport)
    \/ \E followingId \in FollowingIds : \E transport \in FollowTransports :
          unfollowUser(followingId, transport)
    \/ \E followingId \in FollowingIds : \E transport \in FollowTransports :
          isFollowing(followingId, transport)
    \/ \E uid \in {NoUser} \cup FollowerIds : AuthStateChange(uid)

SpecFollow == InitFollow /\ [][NextFollow]_vars

-----------------------------------------------------------------------------
(* canProceedToNext over a wider range of field values: the wizard starts  *)
(* in signup mode on any step, the fields of that step and of the step     *)
(* before it holding any of the wide values, each other field empty or     *)
(* filled, and the bottom button is clicked                                *)

WideEmails == { << >>, << "a", "b" >>, << "@" >>, << "a", "@", "b" >> }

WidePasswords ==
    { << >>, << "p", "a", "s", "s", "w", "o", "r" >>,
      << "p", "a", "s", "s", "w", "o", "r", "d" >>,
      << "p", "a", "s", "s", "w", "o", "r", "t" >> }

WideNames == { << >>, << "J", "o" >> }

WideAges ==
    { << >>, << "1", "2" >>, << "1", "3" >>, << "1", "2", "0" >>,
      << "1", "2", "1" >>, << "-", "2", "0" >>, << "1", "3", ".", "5" >> }

WideUsernames == { << >>, << "a", "b" >>, << "b", "o", "b" >> }

WideOf(field) ==
    CASE field = "email" -> WideEmails
      [] field \in {"password", "confirmPassword"} -> WidePasswords
      [] field \in {"firstName", "lastName"} -> WideNames
      [] field = "gender" -> {<< >>} \cup GenderInputs
      [] field = "age" -> WideAges
      [] field = "country" -> {<< >>} \cup CountryInputs
      [] field = "username" -> WideUsernames

\* a value that passes the field's step
FilledAuthData ==
    [ email |-> << "a", "@", "b" >>,
      password |-> << "p", "a", "s", "s", "w", "o", "r", "d" >>,
      confirmPassword |-> << "p", "a", "s", "s", "w", "o", "r", "d" >>,
      firstName |-> << "J", "o" >>, lastName |-> << "J", "o" >>,
      gender |-> << "f", "e", "m", "a", "l", "e" >>, age |-> << "1", "3" >>,
      country |-> << "C", "a", "n", "a", "d", "a" >>,
      username |-> << "b", "o", "b" >>, interests |-> << "music" >> ]

\* the fields of a step and of the step before it
JustTyped(step) ==
    ShownFields("signup", step) \cup
    (IF IndexOf(step) > 0 THEN ShownFields("signup", PreviousStepOf(step)) ELSE {})

ValuesAt(step, field) ==
    IF field \in JustTyped(step) THEN WideOf(field)
    ELSE {EmptyAuthData[field], FilledAuthData[field]}

InitCanProceed ==
    /\ authMode = "signup"
    /\ signupStep \in {steps[i] : i \in DOMAIN steps}
    /\ authData \in
          [ email : ValuesAt(signupStep, "email"),
            password : ValuesAt(signupStep, "password"),
            confirmPassword : ValuesAt(signupStep, "confirmPassword"),
            firstName : ValuesAt(signupStep, "firstName"),
            lastName : ValuesAt(signupStep, "lastName"),
            gender : ValuesAt(signupStep, "gender"),
            age : ValuesAt(signupStep, "age"),
            country : ValuesAt(signupStep, "country"),
            username : ValuesAt(signupStep, "username"),
            interests : ValuesAt(signupStep, "interests") ]
    /\ usernameAvailable \in {"true", "false", "null"}
    /\ checkingUsername = FALSE
    /\ isLoading = FALSE
    /\ debounceTimeout = NoTimeout
    /\ pendingChecks = << >>
    /\ signUpCalls = << >>
    /\ signInCalls = << >>
    /\ authUsers = {}
    /\ profiles = {}
    /\ follows = EmptyBag
    /\ returned = NoReturn
    /\ failedCalls = {}
    /\ resolvedAvailable = {}
    /\ user = NoUser

NextCanProceed == ClickBottomButton

SpecCanProceed == InitCanProceed /\ [][NextCanProceed]_vars

-----------------------------------------------------------------------------
(* handleInterestToggle over the five interests of the interests step: the *)
(* wizard has reached the step with valid data and interests are toggled   *)

\* the ids of the interests array
AllInterestIds == { "music", "anime", "movies", "books", "discussions" }

InitToggle ==
    /\ authMode = "signup"
    /\ signupStep = "interests"
    /\ authData = [FilledAuthData EXCEPT !.interests = << >>]
    /\ usernameAvailable = "true"
    /\ checkingUsername = FALSE
    /\ isLoading = FALSE
    /\ debounceTimeout = NoTimeout
    /\ pendingChecks = << >>
    /\ signUpCalls = << >>
    /\ signInCalls = << >>
    /\ authUsers = {}
    /\ profiles = {}
    /\ follows = EmptyBag
    /\ returned = NoReturn
    /\ failedCalls = {}
    /\ resolvedAvailable = { FilledAuthData.username }
    /\ user = NoUser

NextToggle == \E interestId \in AllInterestIds : handleInterestToggle(interestId)

SpecToggle == InitToggle /\ [][NextToggle]_vars

-----------------------------------------------------------------------------
(* Claims *)

StepSet == {steps[i] : i \in DOMAIN steps}

\* C1: the step is always one of the nine steps, and every change of the
\* step goes to the step right after or right before it in the fixed
\* order, or comes with a return to the welcome screen.
C1_StepsAdjacent ==
    /\ [](signupStep \in StepSet)
    /\ [][signupStep' # signupStep =>
            \/ IndexOf(signupStep') = IndexOf(signupStep) + 1
            \/ IndexOf(signupStep') = IndexOf(signupStep) - 1
            \/ authMode' = "welcome"]_vars

\* C1: the wizard went through every step up to the last and a completed
\* signup then took it from a later step back to welcome
C1_Witness ==
    /\ authMode = "welcome"
    /\ signupStep = "email"
    /\ \E p \in profiles : p.username = << "b", "o", "b" >>

\* the nine fields a create-account call carries
SignUpFields ==
    {"email", "password", "firstName", "lastName", "username", "gender", "age",
     "country", "interests"}

\* C2: the click that advances from the interests step with an interest
\* selected adds exactly one signUp call, which carries the current value
\* of each of the nine fields; a call is added by nothing else, and two
\* calls are never pending together.
C2_OneSignUpCall ==
    /\ [](Len(signUpCalls) <= 1)
    /\ [][/\ (/\ ClickBottomButton
              /\ authMode = "signup"
              /\ signupStep = "interests"
              /\ Len(authData.interests) >= 1)
             => /\ Len(signUpCalls') = Len(signUpCalls) + 1
                /\ DOMAIN signUpCalls'[Len(signUpCalls')] = SignUpFields
                /\ \A f \in SignUpFields :
                      signUpCalls'[Len(signUpCalls')][f] = authData[f]
          /\ Len(signUpCalls') > Len(signUpCalls)
             => /\ authMode = "signup"
                /\ signupStep = "interests"
                /\ Len(authData.interests) >= 1
                /\ signUpCalls = << >>]_vars

\* C2: a create-account call is pending with the interest music
C2_Witness ==
    /\ Len(signUpCalls) = 1
    /\ signUpCalls[1].interests = << "music" >>
    /\ signUpCalls[1].username = << "B", "o", "b" >>
    /\ isLoading

\* C3: when a create-account call succeeds the wizard is on the welcome
\* screen, on the email step, with every field empty and the availability
\* unknown, whatever the user did while the call was pending.
C3_SuccessResets ==
    [][authUsers' # authUsers =>
          /\ authMode' = "welcome"
          /\ signupStep' = "email"
          /\ authData' = EmptyAuthData
          /\ usernameAvailable' = "null"]_vars

\* C3: a signup has completed and the wizard is reset
C3_Witness ==
    /\ authUsers # {}
    /\ authMode = "welcome"
    /\ authData = EmptyAuthData
    /\ usernameAvailable = "null"
    /\ ~isLoading

\* C4: the answer to a query for a value that is no longer the username
\* never changes the availability.
C4_StaleAnswerIgnored ==
    [][\A i \in DOMAIN pendingChecks :
          (/\ pendingChecks' = RemoveAt(pendingChecks, i)
           /\ pendingChecks[i].username # authData.username)
          => usernameAvailable' = usernameAvailable]_vars

\* the effect's timer fires: it is gone, the username and the step the same
TimerFired ==
    /\ debounceTimeout # NoTimeout
    /\ debounceTimeout' = NoTimeout
    /\ authData'.username = authData.username
    /\ signupStep' = signupStep

\* a change of the username on the username step restarts the delay, and a
\* query is sent only by a timer that ran the whole delay, for the username
\* as it is then
DebounceSafety ==
    /\ (/\ authData'.username # authData.username
        /\ signupStep' = "username"
        /\ authData'.username # << >>)
       => debounceTimeout' = << [username |-> authData'.username, elapsed |-> 0] >>
    /\ Len(pendingChecks') > Len(pendingChecks)
       => /\ TimerFired
          /\ debounceTimeout[1].elapsed >= DebounceDelay
          /\ pendingChecks' = Append(pendingChecks, [username |-> authData.username])

\* C5 as amended: within a burst at most one query is sent, no earlier than
\* the delay after the last change and for the final value only; the timer
\* that fires sends exactly one when the final value has 3 characters or
\* more, and none (the availability becomes unknown) when it is shorter.
C5_Debounce ==
    [][/\ DebounceSafety
       /\ TimerFired =>
             IF Len(authData.username) >= 3
             THEN Len(pendingChecks') = Len(pendingChecks) + 1
             ELSE pendingChecks' = pendingChecks /\ usernameAvailable' = "null"]_vars

\* C5 as claimed: every burst ends with exactly one query
C5_ExactlyOneQuery ==
    [][/\ DebounceSafety
       /\ TimerFired => Len(pendingChecks') = Len(pendingChecks) + 1]_vars

\* C5: two queries were sent one after the other, each by its own timer;
\* the second, for Bob, is pending while the username is Bob
C5_Witness ==
    /\ signupStep = "username"
    /\ authData.username = << "B", "o", "b" >>
    /\ debounceTimeout = NoTimeout
    /\ Len(pendingChecks) = 2
    /\ pendingChecks[2].username = << "B", "o", "b" >>
    /\ pendingChecks[1].username = << "b", "o", "b" >>

\* the condition the specification states for each step
StepCondition(step, data, available) ==
    CASE step = "email" ->
            data.email # << >> /\ (\E i \in 1..Len(data.email) : data.email[i] = "@")
      [] step = "password" -> Len(data.password) >= 8
      [] step = "confirm-password" ->
            data.confirmPassword # << >> /\ data.confirmPassword = data.password
      [] step = "name" -> data.firstName # << >> /\ data.lastName # << >>
      [] step = "gender" -> data.gender # << >>
      [] step = "age" ->
            /\ ParseInt(data.age) # << >>
            /\ ParseInt(data.age)[1] \in 13..120
      [] step = "country" -> data.country # << >>
      [] step = "username" -> Len(data.username) >= 3 /\ available = "true"
      [] step = "interests" -> Len(data.interests) >= 1

AgeOnly(age) == [EmptyAuthData EXCEPT !.age = age]

\* C6: on each of the nine steps canProceedToNext is true exactly when the
\* step's stated condition holds of the fields; the ages 13 and 120 pass,
\* 12 and 121 do not.
C6_CanProceedMatches ==
    /\ CanProceedToNext(signupStep, authData, usernameAvailable)
          <=> StepCondition(signupStep, authData, usernameAvailable)
    /\ CanProceedToNext("age", AgeOnly(<< "1", "3" >>), "null")
    /\ CanProceedToNext("age", AgeOnly(<< "1", "2", "0" >>), "null")
    /\ ~CanProceedToNext("age", AgeOnly(<< "1", "2" >>), "null")
    /\ ~CanProceedToNext("age", AgeOnly(<< "1", "2", "1" >>), "null")

\* C6: with the age 120 typed and the email left empty, the click on the
\* country step went on to the username step and set the debounce timer
C6_Witness ==
    /\ signupStep = "username"
    /\ debounceTimeout # NoTimeout
    /\ authData.age = << "1", "2", "0" >>
    /\ authData.email = << >>

\* an advance in signup mode: a move to the next step or a signUp call
Advance ==
    /\ authMode = "signup"
    /\ \/ IndexOf(signupStep') = IndexOf(signupStep) + 1
       \/ Len(signUpCalls') > Len(signUpCalls)

\* C7: in signup mode neither a move to the next step nor a signUp call
\* happens from a state where canProceedToNext is false for the step or
\* where a signUp or signIn call has not answered yet.
C7_ValidationBlocks ==
    [][Advance =>
          /\ CanProceedToNext(signupStep, authData, usernameAvailable)
          /\ signUpCalls = << >>
          /\ signInCalls = << >>
          /\ ~isLoading]_vars

\* C7: on the last step with an interest chosen, the step's condition true,
\* a signUp call is in flight
C7_Witness ==
    /\ authMode = "signup"
    /\ signupStep = "interests"
    /\ CanProceedToNext(signupStep, authData, usernameAvailable)
    /\ Len(signUpCalls) = 1
    /\ isLoading

\* C8: the availability state is one of available (true), taken (false) and
\* unknown (null), and a move from the username step to the interests step
\* starts only in a state where it is available.
C8_AdvanceOnlyAvailable ==
    /\ [](usernameAvailable \in {"true", "false", "null"})
    /\ [][(signupStep = "username" /\ signupStep' = "interests")
             => usernameAvailable = "true"]_vars

\* C8: the wizard went on from the username step with the name available
C8_Witness ==
    /\ authMode = "signup"
    /\ signupStep = "interests"
    /\ usernameAvailable = "true"
    /\ Len(authData.username) >= 3
    /\ authData.interests = << >>

\* the i-th pending availability query fails: an error other than PGRST116,
\* or a throw
CheckFails(i) ==
    \/ CheckAnswers(i, "error")
    \/ CheckAnswers(i, "throw")

\* C9: an availability query that fails with another error than "no rows",
\* or throws, leaves the availability unknown (null), not taken (false); and
\* with the availability unknown the username step is not left for the
\* interests step, the same as before any query has answered.
C9_FailureIsUnknown ==
    /\ [][\A i \in DOMAIN pendingChecks :
             CheckFails(i) => usernameAvailable' = "null"]_vars
    /\ [][(signupStep = "username" /\ usernameAvailable = "null")
             => signupStep' # "interests"]_vars

\* C9: on the username step the query for a name of three characters has
\* failed: no timer, no query pending, the availability unknown
C9_Witness ==
    /\ authMode = "signup"
    /\ signupStep = "username"
    /\ Len(authData.username) >= 3
    /\ usernameAvailable = "null"
    /\ ~checkingUsername
    /\ pendingChecks = << >>
    /\ debounceTimeout = NoTimeout

\* the names asked about
LookedUpNames == UsernameInputs \ {<< >>}

\* C10: checkUsernameAvailability gives false for every name that is the
\* username of a profile, the ones signed up through the wizard included,
\* true for a name no profile has, null on any other error, and looks up
\* the lower-cased name.
C10_TakenNamesFound ==
    \A name \in LookedUpNames :
       LET r == CheckUsernameAvailability(profiles, user, name, "response")
           e == CheckUsernameAvailability(profiles, user, name, "error")
       IN  /\ (\E p \in profiles : p.username = name) => r.available = "false"
           /\ (\A p \in profiles : p.username # ToLowerCase(name))
                 => r.available = "true"
           /\ e.available = "null"

\* the edge (callerId, followingId)
Edge(callerId, followingId) ==
    [follower_id |-> callerId, following_id |-> followingId]

\* C11: no edge is in the follow graph twice and none joins a user to
\* itself; followUser for a target the caller follows already, or for the
\* caller's own id, returns an error and adds no edge.
C11_NoDuplicateNoSelfEdge ==
    /\ [](\A f \in DOMAIN follows :
             follows[f] = 1 /\ f.follower_id # f.following_id)
    /\ [][\A t \in FollowingIds :
             (/\ user # NoUser
              /\ BagIn(Edge(user, t), follows) \/ t = user
              /\ followUser(t, "response"))
             => (returned'.error # "null" /\ follows' = follows)]_vars

\* C11: the caller follows two users and the last followUser, for one of
\* them again, returned the unique violation
C11_Witness ==
    /\ user # NoUser
    /\ returned.op = "followUser"
    /\ returned.error = "23505"
    /\ BagIn(Edge(user, returned.followingId), follows)
    /\ BagCardinality(follows) >= 2

\* C12: without a current user followUser and unfollowUser throw 'Not
\* authenticated' and leave the edges as they are; a followUser that
\* succeeds adds the edge (caller, followingId) and nothing else;
\* unfollowUser removes that edge and no other.
C12_AuthenticatedEdgeOnly ==
    /\ [][\A t \in FollowingIds : \A tr \in FollowTransports :
             (user = NoUser /\ (followUser(t, tr) \/ unfollowUser(t, tr)))
             => (returned'.thrown = "Not authenticated" /\ follows' = follows)]_vars
    /\ [][\A t \in FollowingIds : \A tr \in FollowTransports :
             (/\ user # NoUser
              /\ followUser(t, tr)
              /\ returned'.error = "null")
             => follows' = follows (+) SetToBag({Edge(user, t)})]_vars
    /\ [][\A t \in FollowingIds :
             (user # NoUser /\ unfollowUser(t, "response"))
             => follows' = follows (-) SetToBag({Edge(user, t)})]_vars

\* C12: the caller has unfollowed one of the two users it followed; the
\* other edge, and an edge of another user, are still there
C12_Witness ==
    /\ user # NoUser
    /\ returned.op = "unfollowUser"
    /\ returned.error = "null"
    /\ ~BagIn(Edge(user, returned.followingId), follows)
    /\ \E p \in profiles : p.id = user /\ p.following_count = 1
    /\ BagCardinality(follows) = 2

\* C13: isFollowing returns false and no error when nobody is signed in
\* and when the caller has no edge to followingId; it returns an error only
\* when the query failed for another reason than "no rows".
C13_NoRowsIsNotAnError ==
    [][\A t \in FollowingIds : \A tr \in FollowTransports :
          isFollowing(t, tr) =>
             /\ user = NoUser
                   => (~returned'.isFollowing /\ returned'.error = "null")
             /\ (tr = "response" /\ ~BagIn(Edge(user, t), follows))
                   => (~returned'.isFollowing /\ returned'.error = "null")
             /\ returned'.error # "null" => tr = "error"]_vars

\* C13: a signed-in caller that follows somebody asked about a user it
\* does not follow and got false without an error
C13_Witness ==
    /\ user # NoUser
    /\ returned.op = "isFollowing"
    /\ ~returned.isFollowing
    /\ returned.error = "null"
    /\ ~BagIn(Edge(user, returned.followingId), follows)
    /\ \E t \in FollowingIds : BagIn(Edge(user, t), follows)

\* C14: the back button on the email step of the signup wizard leads to
\* the welcome screen and leaves the step; on the login form it always
\* leads to the welcome screen.
C14_BackFromFirstStep ==
    /\ [][(authMode = "signup" /\ signupStep = "email" /\ ClickBack)
             => (authMode' = "welcome" /\ signupStep' = signupStep)]_vars
    /\ [][(authMode = "login" /\ ClickBack) => authMode' = "welcome"]_vars

\* C14: back on the welcome screen with the email typed before, while the
\* signIn call made from the login form is pending
C14_Witness ==
    /\ authMode = "welcome"
    /\ signupStep = "email"
    /\ authData.email # << >>
    /\ signInCalls # << >>

\* C15: the back button on another step than email leads to the step
\* before it, stays in the signup wizard and changes no field.
C15_BackOneStep ==
    [][(authMode = "signup" /\ signupStep # "email" /\ ClickBack)
          => /\ IndexOf(signupStep') = IndexOf(signupStep) - 1
             /\ authMode' = "signup"
             /\ authData' = authData]_vars

\* C15: back on the country step from a later step, the username typed
\* there still in its field
C15_Witness ==
    /\ authMode = "signup"
    /\ signupStep = "country"
    /\ Len(authData.username) >= 3

\* a signUp or signIn call answers with an error or throws
AuthCallFails ==
    \/ \E i \in DOMAIN signUpCalls :
          SignUpAnswers(i, "error") \/ SignUpAnswers(i, "throw")
    \/ \E i \in DOMAIN signInCalls :
          SignInAnswers(i, "error") \/ SignInAnswers(i, "throw")

\* C16: when signUp or signIn returns an error or throws, no field, no
\* step and no mode change and the loading flag is cleared.
C16_FailureKeepsData ==
    [][AuthCallFails =>
          /\ authData' = authData
          /\ signupStep' = signupStep
          /\ authMode' = authMode
          /\ ~isLoading']_vars

\* C16: the signUp call has failed and nothing was done since: the wizard
\* is on the interests step with its data and the button is enabled again
C16_Witness ==
    /\ "signUp" \in failedCalls
    /\ authMode = "signup"
    /\ signupStep = "interests"
    /\ authData.email # << >>
    /\ ~BottomButtonDisabled(authMode, signupStep, authData, usernameAvailable,
                             isLoading)

\* C17: a signIn call is issued only with both fields filled, and carries
\* the email and the password of the form; a successful signIn changes no
\* mode, step or field of the wizard.
C17_LoginCall ==
    /\ [][signInCalls' # signInCalls /\ Len(signInCalls') >= Len(signInCalls)
             => /\ authData.email # << >>
                /\ authData.password # << >>
                /\ signInCalls' = Append(signInCalls,
                      [email |-> authData.email, password |-> authData.password])
                /\ authMode' = authMode
                /\ signupStep' = signupStep
                /\ authData' = authData]_vars
    /\ [][\A i \in DOMAIN signInCalls :
             SignInAnswers(i, "ok")
             => /\ authMode' = authMode
                /\ signupStep' = signupStep
                /\ authData' = authData]_vars

\* C17: the user is signed in and the wizard's state is the one of the
\* login form that was submitted
C17_Witness ==
    /\ user # NoUser
    /\ authMode = "login"
    /\ authData.email # << >>
    /\ authData.password # << >>

\* C18: Create Account empties every field, goes to the email step and
\* makes the availability unknown, whatever was there before.
C18_CreateAccountResets ==
    [][ClickCreateAccount
          => /\ authMode' = "signup"
             /\ signupStep' = "email"
             /\ authData' = EmptyAuthData
             /\ usernameAvailable' = "null"]_vars

\* C18: the signup wizard starts empty while the signIn call made with the
\* email and password of the login form is still pending
C18_Witness ==
    /\ authMode = "signup"
    /\ signupStep = "email"
    /\ authData = EmptyAuthData
    /\ signInCalls # << >>

\* C19: on the welcome screen every field is empty.
C19_WelcomeIsEmpty == authMode = "welcome" => authData = EmptyAuthData

\* a step the user takes
UserAction ==
    \/ ClickCreateAccount
    \/ ClickSignIn
    \/ ClickBack
    \/ \E field \in FieldNames : \E value \in InputsOf(field) :
          updateAuthData(field, value)
    \/ \E interestId \in InterestIds : handleInterestToggle(interestId)
    \/ ClickBottomButton
    \/ SubmitLoginForm

\* a call of the kind is issued
Issued(kind) ==
    CASE kind = "check" ->
            pendingChecks' # pendingChecks /\ Len(pendingChecks') >= Len(pendingChecks)
      [] kind = "signUp" ->
            signUpCalls' # signUpCalls /\ Len(signUpCalls') >= Len(signUpCalls)
      [] kind = "signIn" ->
            signInCalls' # signInCalls /\ Len(signInCalls') >= Len(signInCalls)

\* C20 as stated: after a call of a kind has failed, no call of that kind
\* is issued before the user acts again.
C20_NoCallBeforeUserActs ==
    [][\A kind \in failedCalls : Issued(kind) => UserAction]_vars

\* C20: a failed signUp or signIn call is followed by another only in a
\* step the user takes; a failed availability query is followed by another
\* only when the debounce timer fires, for the username the timer holds;
\* and a timer is set only in a step the user takes, so the failure itself
\* issues no call and sets no timer.
C20_NoAutomaticRetry ==
    /\ [][\A kind \in failedCalls \ {"check"} : Issued(kind) => UserAction]_vars
    /\ [][("check" \in failedCalls /\ Issued("check") /\ ~UserAction)
             => /\ debounceTimeout # NoTimeout
                /\ debounceTimeout[1].elapsed >= DebounceDelay
                /\ debounceTimeout' = NoTimeout
                /\ pendingChecks' = Append(pendingChecks,
                      [username |-> debounceTimeout[1].username])]_vars
    /\ [][(debounceTimeout' # NoTimeout /\ ~UserAction)
             => /\ debounceTimeout # NoTimeout
                /\ debounceTimeout'[1].username = debounceTimeout[1].username
                /\ debounceTimeout'[1].elapsed >= debounceTimeout[1].elapsed]_vars

\* C20: an availability query has failed, the user has done nothing since,
\* and the timer of an earlier change of the username is about to fire
C20_Witness ==
    /\ "check" \in failedCalls
    /\ pendingChecks = << >>
    /\ debounceTimeout # NoTimeout
    /\ debounceTimeout[1].elapsed >= DebounceDelay
    /\ Len(debounceTimeout[1].username) >= 3

\* a step of updateAuthData for the field: the field changes while the
\* wizard stays in its mode and no account is created
FieldUpdated(field) ==
    /\ authData'[field] # authData[field]
    /\ authMode' = authMode
    /\ authUsers' = authUsers

\* C21: updateAuthData sets the one field and leaves the other fields, the
\* step and the mode as they are; beside the field only the debounce timer
\* changes, and only for the username on the username step, where a new
\* non-empty username sets the timer that will check it.
C21_UpdateSetsOneField ==
    [][\A field \in FieldNames :
          FieldUpdated(field) =>
             /\ \A other \in FieldNames \ {field} : authData'[other] = authData[other]
             /\ signupStep' = signupStep
             /\ usernameAvailable' = usernameAvailable
             /\ checkingUsername' = checkingUsername
             /\ isLoading' = isLoading
             /\ pendingChecks' = pendingChecks
             /\ signUpCalls' = signUpCalls
             /\ signInCalls' = signInCalls
             /\ debounceTimeout' # debounceTimeout
                   => (field = "username" /\ signupStep = "username")
             /\ (field = "username" /\ signupStep = "username"
                    /\ authData'.username # << >>)
                   => debounceTimeout' =
                         << [username |-> authData'.username, elapsed |-> 0] >>]_vars

\* C21: on the username step the username was changed to Bob after bob
\* had been found available: the timer for Bob has just been set
C21_Witness ==
    /\ authMode = "signup"
    /\ signupStep = "username"
    /\ authData.username = << "B", "o", "b" >>
    /\ debounceTimeout = << [username |-> << "B", "o", "b" >>, elapsed |-> 0] >>
    /\ usernameAvailable = "true"
    /\ resolvedAvailable = { << "b", "o", "b" >> }
    /\ authData.country # << >>

\* C22 as stated: the username of every signUp call is one for which an
\* availability query has answered that it is available.
C22_SubmittedNameChecked ==
    \A i \in DOMAIN signUpCalls : signUpCalls[i].username \in resolvedAvailable

\* the condition of the step on the data that is submitted, the username's
\* being its length alone
SubmitCondition(step, data) ==
    IF step = "username" THEN Len(data.username) >= 3
    ELSE StepCondition(step, data, "null")

\* C23: when signUp is called the data of the wizard satisfies the condition
\* of each of the nine steps, whatever advances, retreats and edits came
\* before, and the call carries that data.
C23_SubmittedDataValid ==
    [][Issued("signUp") =>
          /\ \A i \in DOMAIN steps : SubmitCondition(steps[i], authData)
          /\ signUpCalls' = Append(signUpCalls, SignUpCall(authData))]_vars

\* C23: a signUp call is in flight that was made after the availability had
\* become unknown again on the interests step
C23_Witness ==
    /\ authMode = "signup"
    /\ signupStep = "interests"
    /\ signUpCalls # << >>
    /\ usernameAvailable = "null"
    /\ pendingChecks = << >>
    /\ signUpCalls[1].interests # << >>

\* C24: at most one signUp or signIn call is in flight, and the loading
\* flag is true while it is.
C24_OneAuthCall ==
    /\ Len(signUpCalls) + Len(signInCalls) <= 1
    /\ (signUpCalls # << >> \/ signInCalls # << >>) => isLoading

\* C24: the signIn call of the login form is still in flight while the user
\* has gone back and is typing in the signup wizard
C24_Witness ==
    /\ authMode = "signup"
    /\ signInCalls # << >>
    /\ signUpCalls = << >>
    /\ authData.email # << >>
    /\ isLoading

\* C25: every signUp or signIn call that answers, with success, an error or
\* a throw, clears the loading flag; with every call answering in the end,
\* a wizard that is loading stops loading.
C25_LoadingEnds ==
    /\ [][(SignUpCompletes \/ SignInCompletes) => ~isLoading']_vars
    /\ isLoading ~> ~isLoading

\* C25: the signUp call has thrown and the button of the interests step is
\* enabled again
C25_Witness ==
    /\ "signUp" \in failedCalls
    /\ signUpCalls = << >>
    /\ ~isLoading
    /\ authMode = "signup"
    /\ signupStep = "interests"
    /\ CanProceedToNext(signupStep, authData, usernameAvailable)

\* C26: on the welcome screen and on the login form the step is email, so
\* the debounce timer is pending, and fires its query, in the signup wizard
\* only.
C26_StepIsEmailOutsideSignup ==
    /\ [](authMode \in {"welcome", "login"} => signupStep = "email")
    /\ [](debounceTimeout # NoTimeout => authMode = "signup")
    /\ [][Issued("check") => authMode = "signup"]_vars

\* C26: the signup has completed from a later step and the wizard is back
\* on the welcome screen, on the email step, a query still unanswered
C26_Witness ==
    /\ authMode = "welcome"
    /\ signupStep = "email"
    /\ authUsers # {}
    /\ pendingChecks # << >>

\* C27 as stated: checkingUsername is true whenever an availability query
\* has been issued and has not answered.
C27_CheckingWhilePending == pendingChecks # << >> => checkingUsername

\* the number of rows of follows that have the id in the column
EdgesWith(column, id) ==
    BagCardinality(SelectRows(follows, { f \in DOMAIN follows : f[column] = id }))

\* C28: each profile's followers_count is the number of edges to it and its
\* following_count the number of edges from it, neither is negative, and a
\* call that leaves the edges as they are leaves the counts as they are.
C28_CountsMatchEdges ==
    /\ [](\A p \in profiles :
             /\ p.followers_count = EdgesWith("following_id", p.id)
             /\ p.following_count = EdgesWith("follower_id", p.id)
             /\ p.followers_count >= 0
             /\ p.following_count >= 0)
    /\ [][follows' = follows => profiles' = profiles]_vars

\* C28: a followUser call has just failed while one user has two followers
\* and another follows two users
C28_Witness ==
    /\ returned.op = "followUser"
    /\ returned.error # "null"
    /\ \E p \in profiles : p.followers_count = 2
    /\ \E p \in profiles : p.following_count = 2

\* C29: for a signed-in caller isFollowing(x) tells whether the edge
\* (caller, x) is there; a followUser(x) that succeeds puts it there;
\* unfollowUser(x) takes it away and, when it is not there, returns no error
\* and changes nothing; and the edge changes in no other call.
C29_IsFollowingFollowsHistory ==
    /\ [][\A t \in FollowingIds :
             (user # NoUser /\ isFollowing(t, "response"))
             => returned'.isFollowing = BagIn(Edge(user, t), follows)]_vars
    /\ [][\A t \in FollowingIds : \A tr \in FollowTransports :
             (user # NoUser /\ followUser(t, tr) /\ returned'.error = "null")
             => BagIn(Edge(user, t), follows')]_vars
    /\ [][\A t \in FollowingIds :
             (user # NoUser /\ unfollowUser(t, "response"))
             => /\ ~BagIn(Edge(user, t), follows')
                /\ returned'.error = "null"
                /\ ~BagIn(Edge(user, t), follows)
                      => (follows' = follows /\ profiles' = profiles)]_vars
    /\ [][\A u \in FollowerIds : \A t \in FollowingIds :
             BagIn(Edge(u, t), follows') # BagIn(Edge(u, t), follows)
             => /\ user = u
                /\ returned'.followingId = t
                /\ returned'.op \in {"followUser", "unfollowUser"}]_vars

\* C29: the caller follows the user with the private profile and
\* isFollowing has just said so
C29_Witness ==
    /\ user # NoUser
    /\ returned.op = "isFollowing"
    /\ returned.isFollowing
    /\ BagIn(Edge(user, returned.followingId), follows)
    /\ \E p \in profiles : p.id = returned.followingId /\ p.is_private

\* the identifiers in the list
SetOf(list) == { list[i] : i \in DOMAIN list }

\* C30: no identifier is in the interests twice; a toggle of an absent
\* interest adds it once, a toggle of a present one removes it, a second
\* toggle of the same interest gives the selection there was before, and a
\* toggle changes no other field and not the step.
C30_ToggleKeepsInterestsASet ==
    /\ [](\A i, j \in DOMAIN authData.interests :
             i # j => authData.interests[i] # authData.interests[j])
    /\ [][\A id \in AllInterestIds :
             handleInterestToggle(id) =>
                LET old == authData.interests
                    new == authData'.interests
                IN  /\ id \notin SetOf(old)
                          => /\ SetOf(new) = SetOf(old) \cup {id}
                             /\ Len(new) = Len(old) + 1
                    /\ id \in SetOf(old)
                          => /\ SetOf(new) = SetOf(old) \ {id}
                             /\ Len(new) = Len(old) - 1
                    /\ SetOf(ToggledInterests(new, id)) = SetOf(old)
                    /\ \A field \in FieldNames \ {"interests"} :
                          authData'[field] = authData[field]
                    /\ signupStep' = signupStep]_vars

\* C30: music was chosen first, removed and chosen again after the four
\* others: all five are selected, music last
C30_Witness ==
    /\ signupStep = "interests"
    /\ Len(authData.interests) = 5
    /\ authData.interests[5] = "music"
    /\ authData.username = FilledAuthData.username

====
